---- MODULE Spec2Model ----
(***************************************************************************)
(* A model of the DelhiBizViz front end: the GeoJSON loader and click      *)
(* handling of MapViewer.tsx, the name lookup of onEachFeature, the orbit  *)
(* camera and render loop of PanoramaViewer.tsx, the two requests of       *)
(* geminiService.ts and their orchestration in App.tsx.                    *)
(*                                                                         *)
(* Angles are counted in units of 0.05 degree (the auto-rotation step), so *)
(* one pixel of drag is 2 units and the latitude clamp is +/-1700.         *)
(* Geographic coordinates are counted in units of 0.0001 degree.           *)
(*                                                                         *)
(* A handler is one step together with the render and the effects React    *)
(* runs for the state it sets: React commits the state set in a discrete   *)
(* event and flushes the effects of that commit before the next event or   *)
(* animation frame.  The steps between two awaits of an async function are *)
(* one step as well.  The collection on display is taken to be geoData.    *)
(***************************************************************************)
EXTENDS Integers, Sequences, FiniteSets, TLC

VARIABLES
    \* ---- MapViewer.tsx / App.tsx (map side)
    mapMounted,        \* the mount effect of MapViewer has run
    activeLayer,       \* App state activeLayer
    geoData,           \* MapViewer state geoData
    loading,           \* MapViewer state loading
    usingFallback,     \* MapViewer state usingFallback
    loads,             \* fetchData calls suspended at an await
    loadSeq,           \* number of fetchData calls started so far
    completed,         \* history: the loads that ran to their finally block, in order
    selectedLocation,  \* App state selectedLocation
    \* ---- onEachFeature on an arbitrary feature
    feature,           \* the feature handed to onEachFeature
    tooltip,           \* the name bound to its tooltip
    \* ---- PanoramaViewer.tsx
    panoMounted,       \* Sidebar renders <PanoramaViewer imageUrl=...>
    isInteracting,     \* PanoramaViewer state isInteracting
    textureLoaded,     \* PanoramaViewer state textureLoaded
    closure,           \* the locals of the effect run that is live (lon, lat, drag origin ...)
    sceneSeq,          \* number of effect runs (scenes built) so far
    rafPending,        \* scenes whose animate is scheduled with requestAnimationFrame
    disposed,          \* scenes whose geometry, material, texture and renderer are disposed
    textureLoads,      \* scenes whose textureLoader.load has not called back yet
    renderedDisposed,  \* history: some frame was rendered with disposed resources
    lastFrame,         \* history: the frame rendered last by the mounted viewer
    pointer,           \* history: the pointer event handled last and the drag it belongs to
    \* ---- App.tsx / geminiService.ts
    appMounted,        \* the App component is mounted
    config,            \* App state config
    analysisResult,    \* App state analysisResult
    gens,              \* handleGenerate calls suspended at an await
    genSeq,            \* number of handleGenerate calls started so far
    issued,            \* history: the requests sent to the model, in order
    textCall,          \* history: the generateLocationAnalysis call settled last
    imageCall,         \* history: the generateShopVisualization call settled last
    staleSets          \* history: setAnalysisResult calls made after the App was unmounted

loaderVars == <<mapMounted, activeLayer, geoData, loading, usingFallback, loads,
                loadSeq, completed>>
mapVars  == <<loaderVars, selectedLocation>>
nameVars == <<feature, tooltip>>
panoVars == <<panoMounted, isInteracting, textureLoaded, closure, sceneSeq, rafPending,
              disposed, textureLoads, renderedDisposed, lastFrame, pointer>>
genVars  == <<appMounted, config, analysisResult, gens, genSeq, issued, textCall,
              imageCall, staleSets>>
vars     == <<mapVars, nameVars, panoVars, genVars>>

----------------------------------------------------------------------------
(* Bounds of the model *)

MaxLoads == 2      \* fetchData calls per behaviour
MaxProps == 3      \* properties carried by the feature handed to onEachFeature
MaxScenes == 4     \* effect runs of PanoramaViewer per behaviour
MaxFrames == 2     \* frames one scene's render loop is followed for
MaxPointer == 3    \* mousedown and mousemove events one scene's listeners are followed for
MaxGens == 2       \* handleGenerate calls per behaviour
MaxParts == 2      \* parts in the content of an image response

----------------------------------------------------------------------------
(* types.ts *)

MapLayer == {"City", "Pincode", "Area"}

Null == [type |-> "null", features |-> <<>>]     \* geoData before any load

NoLocation == [name |-> "", type |-> "", coordinates |-> <<0, 0>>, properties |-> <<>>]

----------------------------------------------------------------------------
(* MapViewer.tsx: constants *)

DELHI_CENTER == <<286139, 772090>>

Square(west, east, south, north) ==
    << <<west, north>>, <<east, north>>, <<east, south>>, <<west, south>>, <<west, north>> >>

Polygon(ring) == [type |-> "Polygon", coordinates |-> <<ring>>]

Point(lng, lat) == [type |-> "Point", coordinates |-> <<lng, lat>>]

FALLBACK_DATA ==
    [type |-> "FeatureCollection",
     features |-> <<
        [type |-> "Feature",
         properties |-> [name |-> "Connaught Place", area |-> "Connaught Place", pin_code |-> "110001"],
         geometry |-> Polygon(Square(772140, 772220, 286270, 286340))],
        [type |-> "Feature",
         properties |-> [name |-> "Hauz Khas Village", area |-> "Hauz Khas", pin_code |-> "110016"],
         geometry |-> Polygon(Square(771930, 771980, 285520, 285560))],
        [type |-> "Feature",
         properties |-> [name |-> "Saket District Centre", area |-> "Saket", pin_code |-> "110017"],
         geometry |-> Polygon(Square(772170, 772240, 285200, 285260))],
        [type |-> "Feature",
         properties |-> [name |-> "Karol Bagh", area |-> "Karol Bagh", pin_code |-> "110005"],
         geometry |-> Polygon(Square(771850, 771950, 286450, 286550))],
        [type |-> "Feature",
         properties |-> [name |-> "Lajpat Nagar", area |-> "Lajpat Nagar", pin_code |-> "110024"],
         geometry |-> Polygon(Square(772350, 772450, 285600, 285700))] >>]

(* What the three DATA_URLS serve when they serve a usable collection: one     *)
(* sample body per layer, with the heterogeneous property keys the lookup of   *)
(* onEachFeature is written for.                                               *)
DATA_URLS(layer) ==
    CASE layer = "City" ->
           [type |-> "FeatureCollection",
            features |-> << [type |-> "Feature",
                             properties |-> [NAME |-> "Delhi"],
                             geometry |-> Polygon(Square(768400, 773400, 284000, 288800))] >>]
      [] layer = "Pincode" ->
           [type |-> "FeatureCollection",
            features |-> << [type |-> "Feature",
                             properties |-> [name |-> "", Pincode |-> "110001", area |-> "New Delhi GPO"],
                             geometry |-> Polygon(Square(772100, 772300, 286200, 286400))],
                            [type |-> "Feature",
                             properties |-> [pincode |-> "110016"],
                             geometry |-> Point(771960, 285540)] >>]
      [] layer = "Area" ->
           [type |-> "FeatureCollection",
            features |-> << [type |-> "Feature",
                             properties |-> [Name |-> "X", area |-> "Y"],
                             geometry |-> Polygon(Square(772000, 772100, 286000, 286100))] >>]

(* The bodies response.json() can resolve to for a layer: the usable collection, *)
(* a collection with no features, and an object without a features field.        *)
JsonBodies(layer) ==
    { DATA_URLS(layer),
      [type |-> "FeatureCollection", features |-> <<>>],
      [type |-> "FeatureCollection"] }

----------------------------------------------------------------------------
(* MapViewer.tsx: onEachFeature, the name lookup *)

KeyOrder ==
    <<"name", "Name", "NAME", "pin_code", "pincode", "Pincode",
      "area", "Area", "AREA", "locality">>

\* a || b: the value of a key counts when it is there and is not falsy ("")
Truthy(p, k) == k \in DOMAIN p /\ p[k] # ""

RECURSIVE OrChain(_, _, _)
OrChain(p, keys, default) ==
    IF keys = <<>> THEN default
    ELSE IF Truthy(p, Head(keys)) THEN p[Head(keys)]
    ELSE OrChain(p, Tail(keys), default)

ResolveName_SwappedOrder(p) ==
    OrChain(p, <<"Name", "name", "NAME", "area", "Area", "AREA",
                 "pin_code", "pincode", "Pincode", "locality">>, "Unknown Location")

ResolveName(p) == OrChain(p, KeyOrder, "Unknown Location")

\* const p = feature.properties || {}
PropertiesOf(f) == IF f.hasProperties THEN f.properties ELSE <<>>

----------------------------------------------------------------------------
(* MapViewer.tsx: the click handler's representative coordinate *)

SetMin(S) == CHOOSE m \in S : \A n \in S : m <= n
SetMax(S) == CHOOSE m \in S : \A n \in S : m >= n

\* L.Polygon.getBounds().getCenter(): the middle of the ring's bounding box
BoundsOf(ring) ==
    LET lngs == {ring[i][1] : i \in 1..Len(ring)}
        lats == {ring[i][2] : i \in 1..Len(ring)}
    IN  [west |-> SetMin(lngs), east |-> SetMax(lngs),
         south |-> SetMin(lats), north |-> SetMax(lats)]

GetCenter_LngLat(b) == <<(b.west + b.east) \div 2, (b.south + b.north) \div 2>>

\* LatLngBounds.getCenter(): [lat, lng]
GetCenter(b) == <<(b.south + b.north) \div 2, (b.west + b.east) \div 2>>

\* center: [lat, lng]
CenterOf(geometry) ==
    IF geometry.type = "Polygon" THEN GetCenter(BoundsOf(geometry.coordinates[1]))
    ELSE IF geometry.type = "Point" THEN <<geometry.coordinates[2], geometry.coordinates[1]>>
    ELSE DELHI_CENTER

\* type: activeLayer
ClickType(layer) == layer

EmittedLocation(f, layer) ==
    [name        |-> ResolveName(f.properties),
     type        |-> ClickType(layer),
     coordinates |-> CenterOf(f.geometry),
     properties  |-> f.properties]

----------------------------------------------------------------------------
(* MapViewer.tsx: fetchData *)

ValidCollection_NoLengthCheck(json) == "features" \in DOMAIN json

\* !( !json.features || json.features.length === 0 )
ValidCollection(json) == "features" \in DOMAIN json /\ Len(json.features) > 0

\* what await response.json() leaves in json when it never resolved
NoBody == [type |-> "no body"]

\* the record the history keeps of a load that has run to its finally block:
\* how its fetch settled and the body response.json() resolved to
Done(ld, fetched, json) ==
    [id |-> ld.id, layer |-> ld.layer, fetched |-> fetched, json |-> json]

\* the body of the effect: fetchData() up to its first await
StartLoad(layer) ==
    /\ loadSeq < MaxLoads
    /\ loadSeq' = loadSeq + 1
    /\ loading' = TRUE
    /\ usingFallback' = FALSE
    /\ loads' = loads \cup {[id |-> loadSeq + 1, layer |-> layer, pc |-> "fetch"]}

\* catch + finally
CatchFinally(ld, fetched, json) ==
    /\ geoData' = FALLBACK_DATA
    /\ usingFallback' = TRUE
    /\ loading' = FALSE
    /\ loads' = loads \ {ld}
    /\ completed' = Append(completed, Done(ld, fetched, json))

\* setGeoData(json) + finally
WriteFinally_OnlyActiveLayer(ld, json) ==
    /\ geoData' = IF ld.layer = activeLayer THEN json ELSE geoData
    /\ loading' = FALSE
    /\ loads' = loads \ {ld}
    /\ completed' = Append(completed, Done(ld, "ok", json))
    /\ UNCHANGED usingFallback

WriteFinally(ld, json) ==
    /\ geoData' = json
    /\ loading' = FALSE
    /\ loads' = loads \ {ld}
    /\ completed' = Append(completed, Done(ld, "ok", json))
    /\ UNCHANGED usingFallback

\* first render of MapViewer: useEffect(..., [activeLayer]) runs
MapMount ==
    /\ ~mapMounted
    /\ mapMounted' = TRUE
    /\ StartLoad(activeLayer)
    /\ UNCHANGED <<activeLayer, geoData, completed, selectedLocation, nameVars, panoVars, genVars>>

\* Sidebar: onClick={() => setActiveLayer(layer)}; a changed activeLayer re-runs the effect
SetActiveLayer(layer) ==
    /\ mapMounted
    /\ layer # activeLayer
    /\ activeLayer' = layer
    /\ StartLoad(layer)
    /\ UNCHANGED <<mapMounted, geoData, completed, selectedLocation, nameVars, panoVars, genVars>>

\* await fetch(...) settles: it rejects, or resolves with response.ok false or true
FetchSettles(ld, outcome) ==
    /\ ld \in loads /\ ld.pc = "fetch"
    /\ IF outcome = "ok"
         THEN /\ loads' = (loads \ {ld}) \cup {[ld EXCEPT !.pc = "json"]}
              /\ UNCHANGED <<geoData, usingFallback, loading, completed>>
         ELSE CatchFinally(ld, outcome, NoBody)
    /\ UNCHANGED <<mapMounted, activeLayer, loadSeq, selectedLocation, nameVars, panoVars, genVars>>

\* await response.json() rejects (the body is not JSON)
JsonRejects(ld) ==
    /\ ld \in loads /\ ld.pc = "json"
    /\ CatchFinally(ld, "ok", NoBody)
    /\ UNCHANGED <<mapMounted, activeLayer, loadSeq, selectedLocation, nameVars, panoVars, genVars>>

\* await response.json() resolves
JsonResolves(ld, json) ==
    /\ ld \in loads /\ ld.pc = "json"
    /\ IF ValidCollection(json)
         THEN WriteFinally(ld, json)
         ELSE CatchFinally(ld, "ok", json)
    /\ UNCHANGED <<mapMounted, activeLayer, loadSeq, selectedLocation, nameVars, panoVars, genVars>>

\* a click on feature i of the rendered collection; the loading overlay covers the map
Click(i) ==
    /\ mapMounted
    /\ ~loading
    /\ i \in 1..Len(geoData.features)
    /\ selectedLocation' = EmittedLocation(geoData.features[i], activeLayer)
    /\ UNCHANGED <<mapMounted, activeLayer, geoData, loading, usingFallback, loads,
                   loadSeq, completed, nameVars, panoVars, genVars>>

----------------------------------------------------------------------------
(* onEachFeature applied to an arbitrary feature *)

PropKeys == {KeyOrder[i] : i \in 1..Len(KeyOrder)} \cup {"district"}

PropValues == {"", "X", "Y"}

PropertyMaps ==
    UNION { [S -> PropValues] : S \in {T \in SUBSET PropKeys : Cardinality(T) <= MaxProps} }

Features ==
    {[hasProperties |-> TRUE, properties |-> p] : p \in PropertyMaps}
      \cup {[hasProperties |-> FALSE, properties |-> <<>>]}

Unbound == "<no tooltip>"

\* layer.bindTooltip(`${name}`)
OnEachFeature ==
    /\ tooltip = Unbound
    /\ tooltip' = ResolveName(PropertiesOf(feature))
    /\ UNCHANGED <<feature, mapVars, panoVars, genVars>>

----------------------------------------------------------------------------
(* PanoramaViewer.tsx: the orbit camera *)

LonStep == 1          \* lon += 0.05
DragScale == 2        \* * 0.1 per pixel
LatLimit == 1700      \* 85 degrees

Images == {"data:image/png;base64,A", "data:image/jpeg;base64,B"}

\* clientX / clientY of the pointer events followed
PointerXs == {0, 150}
PointerYs == {0, 2000}

NoClosure ==
    [id |-> 0, imageUrl |-> "", isInteracting |-> FALSE, lon |-> 0, lat |-> 0,
     onPointerDownPointerX |-> 0, onPointerDownPointerY |-> 0,
     onPointerDownLon |-> 0, onPointerDownLat |-> 0, frames |-> 0, events |-> 0]

\* the locals of a fresh effect run: let lon = 0, lat = 0, ...
NewClosure(id, img, interacting) ==
    [NoClosure EXCEPT !.id = id, !.imageUrl = img, !.isInteracting = interacting]

Max(a, b) == IF a >= b THEN a ELSE b
Min(a, b) == IF a <= b THEN a ELSE b

Clamp_None(lat) == lat

\* Math.max(-85, Math.min(85, lat))
Clamp(lat) == Max(-LatLimit, Min(LatLimit, lat))

Animate_AlwaysRotates(c) ==
    [c EXCEPT !.lon = @ + LonStep, !.lat = Clamp(@), !.frames = @ + 1]

\* animate: one frame of the render loop, on the locals of its closure
Animate(c) ==
    [c EXCEPT !.lon = IF ~c.isInteracting THEN @ + LonStep ELSE @,
              !.lat = Clamp(@),
              !.frames = @ + 1]

NoFrame ==
    [scene |-> 0, dragging |-> FALSE, lonBefore |-> 0, lonAfter |-> 0,
     latBefore |-> 0, latAfter |-> 0,
     prevScene |-> 0, prevDragging |-> FALSE, prevLonAfter |-> 0]

\* the record the history keeps of a frame: the orientation before and after it,
\* whether a drag was active, and the same of the frame before it
FrameOf(before, after, dragging) ==
    [scene |-> after.id, dragging |-> dragging,
     lonBefore |-> before.lon, lonAfter |-> after.lon,
     latBefore |-> before.lat, latAfter |-> after.lat,
     prevScene |-> lastFrame.scene, prevDragging |-> lastFrame.dragging,
     prevLonAfter |-> lastFrame.lonAfter]

CancelAnimationFrame_Missing(pending, id) == pending

\* cancelAnimationFrame(animationId)
CancelAnimationFrame(pending, id) == pending \ {id}

\* what the last pointer event was, where the pointer is, and for a drag in progress
\* where the mousedown that began it (or the latest one) was, with the lon and lat the
\* camera had when that mousedown arrived
NoPointer == [event |-> "none", x |-> 0, y |-> 0, x0 |-> 0, y0 |-> 0, lon0 |-> 0, lat0 |-> 0]

PointerDown(x, y, c) ==
    [event |-> "down", x |-> x, y |-> y, x0 |-> x, y0 |-> y, lon0 |-> c.lon, lat0 |-> c.lat]

\* the cleanup of the live effect run, then the effect body with the new props and
\* state: a new scene, its texture load, fresh locals, and the first animate()
RunEffect(img, interacting) ==
    LET id    == sceneSeq + 1
        fresh == NewClosure(id, img, interacting)
        old   == closure.id
    IN  /\ sceneSeq < MaxScenes
        /\ sceneSeq' = id
        /\ textureLoaded' = FALSE
        /\ textureLoads' = textureLoads \cup {id}
        /\ disposed' = IF old = 0 THEN disposed ELSE disposed \cup {old}
        /\ rafPending' = CancelAnimationFrame(rafPending, old) \cup {id}
        /\ closure' = Animate(fresh)
        /\ lastFrame' = FrameOf(fresh, Animate(fresh), interacting)
        /\ UNCHANGED renderedDisposed

\* Sidebar: analysis.imageUrl && <PanoramaViewer imageUrl={analysis.imageUrl} />
PanoMount(img) ==
    /\ ~panoMounted
    /\ panoMounted' = TRUE
    /\ isInteracting' = FALSE
    /\ RunEffect(img, FALSE)
    /\ UNCHANGED <<pointer, mapVars, nameVars, genVars>>

\* analysis.imageUrl becomes undefined: the viewer is removed, the cleanup runs
PanoUnmount ==
    /\ panoMounted
    /\ panoMounted' = FALSE
    /\ isInteracting' = FALSE
    /\ textureLoaded' = FALSE
    /\ disposed' = disposed \cup {closure.id}
    /\ rafPending' = CancelAnimationFrame(rafPending, closure.id)
    /\ closure' = NoClosure
    /\ textureLoads' = {}
    /\ lastFrame' = NoFrame
    /\ pointer' = NoPointer
    /\ UNCHANGED <<sceneSeq, renderedDisposed, mapVars, nameVars, genVars>>

\* mousedown on the container; the loading overlay covers it until textureLoaded
OnPointerDown(x, y) ==
    /\ panoMounted
    /\ textureLoaded
    /\ pointer' = PointerDown(x, y, closure)
    /\ IF ~isInteracting
         THEN /\ isInteracting' = TRUE
              /\ RunEffect(closure.imageUrl, TRUE)
         ELSE /\ closure.events < MaxPointer
              /\ closure' = [closure EXCEPT !.events = @ + 1,
                                            !.onPointerDownPointerX = x,
                                            !.onPointerDownPointerY = y,
                                            !.onPointerDownLon = closure.lon,
                                            !.onPointerDownLat = closure.lat]
              /\ UNCHANGED <<isInteracting, textureLoaded, sceneSeq, rafPending, disposed,
                             textureLoads, renderedDisposed, lastFrame>>
    /\ UNCHANGED <<panoMounted, mapVars, nameVars, genVars>>

\* mousemove on the document
OnPointerMove(x, y) ==
    /\ panoMounted
    /\ closure.isInteracting
    /\ closure.events < MaxPointer
    /\ closure' = [closure EXCEPT
                     !.events = @ + 1,
                     !.lon = (closure.onPointerDownPointerX - x) * DragScale + closure.onPointerDownLon,
                     !.lat = (y - closure.onPointerDownPointerY) * DragScale + closure.onPointerDownLat]
    /\ pointer' = [pointer EXCEPT !.event = "move", !.x = x, !.y = y]
    /\ UNCHANGED <<panoMounted, isInteracting, textureLoaded, sceneSeq, rafPending, disposed,
                   textureLoads, renderedDisposed, lastFrame, mapVars, nameVars, genVars>>

\* mouseup on the document
OnPointerUp ==
    /\ panoMounted
    /\ isInteracting
    /\ isInteracting' = FALSE
    /\ RunEffect(closure.imageUrl, FALSE)
    /\ pointer' = [NoPointer EXCEPT !.event = "up"]
    /\ UNCHANGED <<panoMounted, mapVars, nameVars, genVars>>

\* the browser runs a scheduled animate
Frame(s) ==
    /\ s \in rafPending
    /\ renderedDisposed' = (renderedDisposed \/ s \in disposed)
    /\ IF s = closure.id
         THEN /\ closure.frames < MaxFrames
              /\ closure' = Animate(closure)
              /\ lastFrame' = FrameOf(closure, Animate(closure), isInteracting)
         ELSE UNCHANGED <<closure, lastFrame>>
    /\ UNCHANGED <<panoMounted, isInteracting, textureLoaded, sceneSeq, rafPending, disposed,
                   textureLoads, pointer, mapVars, nameVars, genVars>>

\* textureLoader.load: onLoad
TextureLoads(s) ==
    /\ s \in textureLoads
    /\ textureLoads' = textureLoads \ {s}
    /\ textureLoaded' = TRUE
    /\ UNCHANGED <<panoMounted, isInteracting, closure, sceneSeq, rafPending, disposed,
                   renderedDisposed, lastFrame, pointer, mapVars, nameVars, genVars>>

\* textureLoader.load: onError
TextureFails(s) ==
    /\ s \in textureLoads
    /\ textureLoads' = textureLoads \ {s}
    /\ UNCHANGED <<panoMounted, isInteracting, textureLoaded, closure, sceneSeq, rafPending,
                   disposed, renderedDisposed, lastFrame, pointer, mapVars, nameVars, genVars>>

----------------------------------------------------------------------------
(* geminiService.ts *)

Undefined == "<undefined>"

Fulfilled(v) == [state |-> "fulfilled", value |-> v]
Rejected     == [state |-> "rejected", value |-> Undefined]

\* how ai.models.generateContent settles for the text prompt: a text, no text, or
\* a rejection (network, quota, credential)
TextApiOutcomes ==
    { [kind |-> "ok", text |-> "## Demographics & Vibe"],
      [kind |-> "ok", text |-> ""],
      [kind |-> "reject"] }

GenerateLocationAnalysis_NoCatch(api) ==
    IF api.kind = "reject" THEN Rejected
    ELSE Fulfilled(IF api.text # "" THEN api.text ELSE "Analysis could not be generated.")

\* generateLocationAnalysis: what the promise it returns settles to
GenerateLocationAnalysis(api) ==
    IF api.kind = "reject"
      THEN Fulfilled("Failed to generate market analysis. Please check your API key.")
      ELSE Fulfilled(IF api.text # "" THEN api.text ELSE "Analysis could not be generated.")

TextPart == [text |-> "Here is the render."]

InlinePart(mimeType, data) == [inlineData |-> [mimeType |-> mimeType, data |-> data]]

PartChoices == {TextPart, InlinePart("image/png", "A"), InlinePart("image/jpeg", "B")}

PartLists == UNION { [1..n -> PartChoices] : n \in 0..MaxParts }

\* how ai.models.generateContent settles for the image prompt. The request sets no
\* candidateCount, so a response carries at most one candidate; it may carry none,
\* and a candidate may come without content (a blocked generation).
ImageApiOutcomes ==
    { [kind |-> "reject"] }
      \cup { [kind |-> "ok", response |-> [promptFeedback |-> "blocked"]],
             [kind |-> "ok", response |-> [candidates |-> <<>>]],
             [kind |-> "ok", response |-> [candidates |-> << [finishReason |-> "SAFETY"] >>]] }
      \cup { [kind |-> "ok",
              response |-> [candidates |-> << [content |-> [parts |-> ps]] >>]] : ps \in PartLists }

\* response.candidates?.[0]?.content?.parts || []
PartsOf(response) ==
    IF "candidates" \notin DOMAIN response THEN <<>>
    ELSE IF Len(response.candidates) = 0 THEN <<>>
    ELSE IF "content" \notin DOMAIN response.candidates[1] THEN <<>>
    ELSE IF "parts" \notin DOMAIN response.candidates[1].content THEN <<>>
    ELSE response.candidates[1].content.parts

\* `data:${part.inlineData.mimeType};base64,${part.inlineData.data}`
DataUri(part) == "data:" \o part.inlineData.mimeType \o ";base64," \o part.inlineData.data

RECURSIVE LastInline(_)
LastInline(parts) ==
    IF parts = <<>> THEN Undefined
    ELSE IF "inlineData" \in DOMAIN parts[Len(parts)] THEN DataUri(parts[Len(parts)])
    ELSE LastInline(SubSeq(parts, 1, Len(parts) - 1))

\* for (const part of parts) { if (part.inlineData) return ... } return undefined
RECURSIVE FirstInline(_)
FirstInline(parts) ==
    IF parts = <<>> THEN Undefined
    ELSE IF "inlineData" \in DOMAIN Head(parts) THEN DataUri(Head(parts))
    ELSE FirstInline(Tail(parts))

\* generateShopVisualization: what the promise it returns settles to
GenerateShopVisualization(api) ==
    IF api.kind = "reject" THEN Fulfilled(Undefined)
    ELSE Fulfilled(FirstInline(PartsOf(api.response)))

----------------------------------------------------------------------------
(* App.tsx: handleGenerate *)

BusinessTypes == {"Coffee Shop", "Bakery"}

InitialConfig ==
    [businessType |-> "Coffee Shop", architecturalStyle |-> "Modern Industrial",
     timeOfDay |-> "Sunny afternoon"]

EmptyResult == [markdownAnalysis |-> "", imageUrl |-> Undefined, loading |-> FALSE]

NoCall == [settled |-> FALSE, api |-> [kind |-> "none"], promise |-> Fulfilled(Undefined)]

\* the locations the map hands to onLocationSelect
Locations == {EmittedLocation(FALLBACK_DATA.features[i], "Area") : i \in 1..2}

\* the record the history keeps of a request sent to the model
Request(g, kind) ==
    [gen |-> g.id, kind |-> kind, location |-> g.location.name, config |-> g.config,
     mounted |-> appMounted]

\* setAnalysisResult(prev => next): React drops the update of an unmounted component
SetAnalysisResult(next) ==
    IF appMounted
      THEN analysisResult' = next /\ UNCHANGED staleSets
      ELSE staleSets' = staleSets + 1 /\ UNCHANGED analysisResult

\* the catch block of handleGenerate
CatchGeneration ==
    SetAnalysisResult(
      [analysisResult EXCEPT
         !.loading = FALSE,
         !.markdownAnalysis =
            IF @ # "" THEN @
            ELSE "An error occurred while communicating with the AI service. Please try again."])

\* MapViewer: onLocationSelect={setSelectedLocation}
OnLocationSelect(loc) ==
    /\ appMounted
    /\ selectedLocation' = loc
    /\ UNCHANGED <<loaderVars, nameVars, panoVars, genVars>>

\* Sidebar: setConfig({ ...config, businessType: e.target.value })
SetConfig(businessType) ==
    /\ appMounted
    /\ businessType # config.businessType
    /\ config' = [config EXCEPT !.businessType = businessType]
    /\ UNCHANGED <<appMounted, analysisResult, gens, genSeq, issued, textCall, imageCall,
                   staleSets, mapVars, nameVars, panoVars>>

GenerateDisabled_IgnoresLoading == selectedLocation = NoLocation

\* Sidebar: <button onClick={onGenerate} disabled={!selectedLocation || analysis.loading}>
GenerateDisabled == selectedLocation = NoLocation \/ analysisResult.loading

ResetResult_KeepsImage(prev) == [prev EXCEPT !.loading = TRUE, !.markdownAnalysis = ""]

\* prev => ({ ...prev, loading: true, markdownAnalysis: '', imageUrl: undefined })
ResetResult(prev) ==
    [prev EXCEPT !.loading = TRUE, !.markdownAnalysis = "", !.imageUrl = Undefined]

FinalResult_DropsText(prev, imageUrl) ==
    [markdownAnalysis |-> "", imageUrl |-> imageUrl, loading |-> FALSE]

FinalResult_KeepsLoading(prev, imageUrl) == [prev EXCEPT !.imageUrl = imageUrl]

\* prev => ({ ...prev, imageUrl: imageUrl, loading: false })
FinalResult(prev, imageUrl) == [prev EXCEPT !.imageUrl = imageUrl, !.loading = FALSE]

ImageRequest_CurrentState(g) ==
    Request([g EXCEPT !.location = selectedLocation, !.config = config], "image")

\* generateShopVisualization(selectedLocation, config), with the selectedLocation and
\* config of the render whose handleGenerate is running
ImageRequest(g) == Request(g, "image")

\* handleGenerate up to the await of the text request
HandleGenerate ==
    IF selectedLocation = NoLocation
      THEN UNCHANGED <<analysisResult, gens, genSeq, issued>>
      ELSE /\ genSeq' = genSeq + 1
           /\ analysisResult' = ResetResult(analysisResult)
           /\ LET g == [id |-> genSeq + 1, pc |-> "text", location |-> selectedLocation,
                        config |-> config]
              IN  /\ gens' = gens \cup {g}
                  /\ issued' = Append(issued, Request(g, "text"))

\* a click on the Generate button while it is enabled
OnGenerate ==
    /\ appMounted
    /\ ~GenerateDisabled
    /\ genSeq < MaxGens
    /\ HandleGenerate
    /\ UNCHANGED <<appMounted, config, textCall, imageCall, staleSets, mapVars, nameVars,
                   panoVars>>

\* the text request settles: generateLocationAnalysis returns, handleGenerate writes
\* the text and calls generateShopVisualization, which waits delay(1000)
TextSettles(g, api) ==
    /\ g \in gens /\ g.pc = "text"
    /\ LET promise == GenerateLocationAnalysis(api)
       IN  /\ textCall' = [settled |-> TRUE, api |-> api, promise |-> promise]
           /\ IF promise.state = "fulfilled"
                THEN /\ SetAnalysisResult([analysisResult EXCEPT
                                             !.markdownAnalysis = promise.value])
                     /\ gens' = (gens \ {g}) \cup {[g EXCEPT !.pc = "delay"]}
                ELSE /\ CatchGeneration
                     /\ gens' = gens \ {g}
    /\ UNCHANGED <<appMounted, config, genSeq, issued, imageCall, mapVars, nameVars, panoVars>>

\* delay(1000) elapses: generateShopVisualization sends the image request
DelayElapses(g) ==
    /\ g \in gens /\ g.pc = "delay"
    /\ gens' = (gens \ {g}) \cup {[g EXCEPT !.pc = "image"]}
    /\ issued' = Append(issued, ImageRequest(g))
    /\ UNCHANGED <<appMounted, config, analysisResult, genSeq, textCall, imageCall, staleSets,
                   mapVars, nameVars, panoVars>>

\* the image request settles: generateShopVisualization returns, handleGenerate
\* writes the image and ends
ImageSettles(g, api) ==
    /\ g \in gens /\ g.pc = "image"
    /\ LET promise == GenerateShopVisualization(api)
       IN  /\ imageCall' = [settled |-> TRUE, api |-> api, promise |-> promise]
           /\ IF promise.state = "fulfilled"
                THEN SetAnalysisResult(FinalResult(analysisResult, promise.value))
                ELSE CatchGeneration
    /\ gens' = gens \ {g}
    /\ UNCHANGED <<appMounted, config, genSeq, issued, textCall, mapVars, nameVars, panoVars>>

\* the App is removed from the page while it lives on (the root is unmounted)
AppUnmount ==
    /\ appMounted
    /\ appMounted' = FALSE
    /\ UNCHANGED <<config, analysisResult, gens, genSeq, issued, textCall, imageCall,
                   staleSets, mapVars, nameVars, panoVars>>

----------------------------------------------------------------------------
(* Specifications *)

GenInit ==
    /\ appMounted = TRUE
    /\ config = InitialConfig
    /\ analysisResult = EmptyResult
    /\ gens = {}
    /\ genSeq = 0
    /\ issued = <<>>
    /\ textCall = NoCall
    /\ imageCall = NoCall
    /\ staleSets = 0

PanoInit ==
    /\ panoMounted = FALSE
    /\ isInteracting = FALSE
    /\ textureLoaded = FALSE
    /\ closure = NoClosure
    /\ sceneSeq = 0
    /\ rafPending = {}
    /\ disposed = {}
    /\ textureLoads = {}
    /\ renderedDisposed = FALSE
    /\ lastFrame = NoFrame
    /\ pointer = NoPointer

MapInit ==
    /\ mapMounted = FALSE
    /\ activeLayer = "Area"
    /\ geoData = Null
    /\ loading = FALSE
    /\ usingFallback = FALSE
    /\ loads = {}
    /\ loadSeq = 0
    /\ completed = <<>>
    /\ selectedLocation = NoLocation

NameIdle == feature = [hasProperties |-> FALSE, properties |-> <<>>] /\ tooltip = Unbound

Init == MapInit /\ NameIdle /\ PanoInit /\ GenInit

Next ==
    \/ MapMount
    \/ \E layer \in MapLayer : SetActiveLayer(layer)
    \/ \E ld \in loads, outcome \in {"reject", "http_error", "ok"} : FetchSettles(ld, outcome)
    \/ \E ld \in loads : JsonRejects(ld)
    \/ \E ld \in loads : \E json \in JsonBodies(ld.layer) : JsonResolves(ld, json)
    \/ \E i \in 1..5 : Click(i)

Spec == Init /\ [][Next]_vars

NameInit == MapInit /\ PanoInit /\ GenInit /\ feature \in Features /\ tooltip = Unbound

NameNext == OnEachFeature

SpecName == NameInit /\ [][NameNext]_vars

PanoNext ==
    \/ \E img \in Images : PanoMount(img)
    \/ PanoUnmount
    \/ \E x \in PointerXs, y \in PointerYs : OnPointerDown(x, y)
    \/ \E x \in PointerXs, y \in PointerYs : OnPointerMove(x, y)
    \/ OnPointerUp
    \/ \E s \in rafPending : Frame(s)
    \/ \E s \in textureLoads : TextureLoads(s)
    \/ \E s \in textureLoads : TextureFails(s)

SpecPano == Init /\ [][PanoNext]_vars

GenNext ==
    \/ \E loc \in Locations : OnLocationSelect(loc)
    \/ \E b \in BusinessTypes : SetConfig(b)
    \/ OnGenerate
    \/ \E g \in gens, api \in TextApiOutcomes : TextSettles(g, api)
    \/ \E g \in gens : DelayElapses(g)
    \/ \E g \in gens, api \in ImageApiOutcomes : ImageSettles(g, api)
    \/ AppUnmount

SpecGen == Init /\ [][GenNext]_vars

\* every request sent settles (it resolves or rejects), and the timer of delay(1000)
\* fires
SpecGenFair ==
    /\ Init /\ [][GenNext]_vars
    /\ WF_vars(\E g \in gens, api \in TextApiOutcomes : TextSettles(g, api))
    /\ WF_vars(\E g \in gens : DelayElapses(g))
    /\ WF_vars(\E g \in gens, api \in ImageApiOutcomes : ImageSettles(g, api))

----------------------------------------------------------------------------
(* Properties of the map loader and the click handler (Spec) *)

\* a load whose fetch rejected or was not ok, or whose body has no features
FailedLoad(c) ==
    \/ c.fetched # "ok"
    \/ "features" \notin DOMAIN c.json
    \/ Len(c.json.features) = 0

Last(s) == s[Len(s)]

\* C1: when a load whose fetch rejected, answered with a non-2xx status, or
\* returned a body with a missing or zero-length feature list completes, geoData
\* is the bundled fallback collection and usingFallback is true.
C1_FailedLoadShowsFallback ==
    [][ (Len(completed') = Len(completed) + 1 /\ FailedLoad(Last(completed')))
          => (geoData' = FALLBACK_DATA /\ usingFallback' = TRUE) ]_vars

\* the load that completed last fetched a body with a zero-length feature list,
\* and the fallback is on display
C1_Witness ==
    /\ completed # <<>>
    /\ Last(completed).fetched = "ok"
    /\ "features" \in DOMAIN Last(completed).json
    /\ Last(completed).json.features = <<>>
    /\ geoData = FALLBACK_DATA
    /\ usingFallback

\* C7 as stated: a click on the Connaught Place polygon of the fallback collection
\* emits name "Connaught Place", type "Area" and a coordinate inside the polygon's
\* bounding box, whatever layer is active.
ConnaughtPlace == FALLBACK_DATA.features[1]

InConnaughtBox(c) ==
    /\ 286270 <= c[1] /\ c[1] <= 286340
    /\ 772140 <= c[2] /\ c[2] <= 772220

C7_TypeIsAlwaysArea ==
    selectedLocation.properties = ConnaughtPlace.properties
      => /\ selectedLocation.name = "Connaught Place"
         /\ selectedLocation.type = "Area"
         /\ InConnaughtBox(selectedLocation.coordinates)

\* C7, amended: a click on the Connaught Place polygon of the fallback collection
\* emits name "Connaught Place", the layer active at the click as type, and a
\* coordinate inside the polygon's bounding box.
C7_TypeIsActiveLayer ==
    [][ (selectedLocation' # selectedLocation
           /\ selectedLocation'.properties = ConnaughtPlace.properties)
          => /\ geoData = FALLBACK_DATA
             /\ selectedLocation'.name = "Connaught Place"
             /\ selectedLocation'.type = activeLayer
             /\ InConnaughtBox(selectedLocation'.coordinates) ]_vars

\* Connaught Place was clicked on the fallback collection while City was active
C7_Witness ==
    /\ geoData = FALLBACK_DATA
    /\ activeLayer = "City"
    /\ selectedLocation.name = "Connaught Place"
    /\ selectedLocation.type = "City"
    /\ selectedLocation.coordinates = <<286305, 772180>>

\* what a completed load wrote to geoData
WrittenBy(c) == IF FailedLoad(c) THEN FALLBACK_DATA ELSE c.json

\* C8: a change of the active layer starts one more load and leaves the loads in
\* flight as they are; once no load is in flight, geoData is what the load that
\* completed last wrote, whichever layer is active.
C8_LastCompletedWins ==
    [][ /\ activeLayer' # activeLayer
          => \E new \in loads' :
                /\ new \notin loads
                /\ new.layer = activeLayer' /\ new.pc = "fetch"
                /\ loads' = loads \cup {new}
        /\ (loads' = {} /\ completed' # <<>>)
          => geoData' = WrittenBy(Last(completed')) ]_vars

\* two overlapping loads completed in the reverse of their start order, and the
\* collection on display is the one of a layer that is no longer active
C8_Witness ==
    /\ loads = {}
    /\ Len(completed) = 2
    /\ completed[1].id > completed[2].id
    /\ ~FailedLoad(completed[2])
    /\ completed[2].layer # activeLayer
    /\ geoData = DATA_URLS(completed[2].layer)

----------------------------------------------------------------------------
(* Properties of the name lookup (SpecName) *)

DocumentedOrder ==
    <<"name", "Name", "NAME", "pin_code", "pincode", "Pincode",
      "area", "Area", "AREA", "locality">>

FirstOf(p, good(_)) ==
    LET idx == {i \in 1..Len(DocumentedOrder) : good(DocumentedOrder[i])}
    IN  IF idx = {} THEN "Unknown Location" ELSE p[DocumentedOrder[SetMin(idx)]]

\* C2 as stated: the resolved name is the value of the first key of the documented
\* order that is present in the properties, "Unknown Location" when none is.
C2_FirstPresentKey ==
    tooltip # Unbound =>
        LET p == PropertiesOf(feature)
            Present(k) == k \in DOMAIN p
        IN  tooltip = FirstOf(p, Present)

\* C2, amended: the resolved name is the value of the first key of the documented
\* order that is present with a non-empty (truthy) value, "Unknown Location" when
\* there is none; {Name: "X", area: "Y"} resolves to "X".
C2_FirstTruthyKey ==
    tooltip # Unbound =>
        LET p == PropertiesOf(feature)
            NonEmpty(k) == k \in DOMAIN p /\ p[k] # ""
        IN  /\ tooltip = FirstOf(p, NonEmpty)
            /\ (feature.hasProperties /\ feature.properties = [Name |-> "X", area |-> "Y"])
                  => tooltip = "X"

\* an empty name is passed over for the next key of the order
C2_Witness ==
    /\ feature.hasProperties
    /\ feature.properties = [name |-> "", Name |-> "X", area |-> "Y"]
    /\ tooltip = "X"

----------------------------------------------------------------------------
(* Properties of the panorama viewer (SpecPano) *)

\* degrees, in the model's unit of 0.05 degree
Deg(d) == d * 20

\* C3: the latitude a frame orients the camera with lies in [-85, 85], whatever
\* pointer events came before it; a drag that put lat at 200 renders at 85.
C3_RenderedLatitudeClamped ==
    lastFrame.scene # 0 =>
        /\ Deg(-85) <= lastFrame.latAfter
        /\ lastFrame.latAfter <= Deg(85)
        /\ (lastFrame.latBefore >= Deg(200) => lastFrame.latAfter = Deg(85))

\* a drag left lat at 200 degrees or more and the frame after it rendered at 85
C3_Witness ==
    /\ lastFrame.scene # 0
    /\ lastFrame.dragging
    /\ lastFrame.latBefore >= Deg(200)
    /\ lastFrame.latAfter = Deg(85)

\* C4: a frame rendered while no drag is active adds the fixed increment 0.05 to
\* lon, and lon does not decrease from one such frame to the next; a frame
\* rendered while a drag is active does not increase lon.
C4_IdleRotation ==
    lastFrame.scene # 0 =>
        /\ ~lastFrame.dragging => lastFrame.lonAfter = lastFrame.lonBefore + 1
        /\ (~lastFrame.dragging /\ lastFrame.prevScene # 0 /\ ~lastFrame.prevDragging)
              => lastFrame.lonAfter >= lastFrame.prevLonAfter
        /\ lastFrame.dragging => lastFrame.lonAfter <= lastFrame.lonBefore

\* two idle frames in a row, the second one 0.05 further than the first
C4_Witness ==
    /\ lastFrame.scene # 0
    /\ ~lastFrame.dragging
    /\ lastFrame.prevScene = lastFrame.scene
    /\ ~lastFrame.prevDragging
    /\ lastFrame.lonAfter = lastFrame.prevLonAfter + 1
    /\ lastFrame.lonAfter = 2

\* C10: every scene but the live one has had its render loop cancelled and its
\* resources disposed, also after an unmount or a change of image; at most one
\* render loop is scheduled; no frame was rendered with disposed resources.
C10_LoopCancelledResourcesDisposed ==
    /\ Cardinality(rafPending) <= 1
    /\ rafPending \cap disposed = {}
    /\ ~renderedDisposed
    /\ disposed = (1..sceneSeq) \ {closure.id}
    /\ rafPending = IF panoMounted THEN {closure.id} ELSE {}

\* the viewer was removed and mounted again, and its earlier scenes are disposed
C10_Witness ==
    /\ panoMounted
    /\ sceneSeq >= 3
    /\ closure.frames >= 2
    /\ disposed = 1..(sceneSeq - 1)
    /\ rafPending = {sceneSeq}
    /\ lastFrame.prevScene = sceneSeq

----------------------------------------------------------------------------
(* Properties of the AI client and its orchestration (SpecGen) *)

\* C5: generateLocationAnalysis never rejects; when the model call fails it
\* resolves to the literal fallback sentence.
C5_AnalysisNeverRejects ==
    textCall.settled =>
        /\ textCall.promise.state = "fulfilled"
        /\ textCall.api.kind = "reject"
             => textCall.promise.value =
                  "Failed to generate market analysis. Please check your API key."

\* the model call failed and the fallback sentence is on display
C5_Witness ==
    /\ textCall.settled
    /\ textCall.api.kind = "reject"
    /\ analysisResult.markdownAnalysis =
          "Failed to generate market analysis. Please check your API key."

\* the parts of a response that carry an inline payload, by position
InlineAt(api) ==
    IF api.kind # "ok" THEN {}
    ELSE LET ps == PartsOf(api.response)
         IN  {i \in 1..Len(ps) : "inlineData" \in DOMAIN ps[i]}

\* C6: generateShopVisualization never rejects; it resolves to undefined when the
\* request fails or the response has no part with an inline payload, and to the
\* data URI of the first part with an inline payload otherwise.
C6_VisualizationNeverRejects ==
    imageCall.settled =>
        /\ imageCall.promise.state = "fulfilled"
        /\ IF InlineAt(imageCall.api) = {}
             THEN imageCall.promise.value = Undefined
             ELSE LET first == PartsOf(imageCall.api.response)[SetMin(InlineAt(imageCall.api))]
                  IN  imageCall.promise.value =
                        "data:" \o first.inlineData.mimeType \o ";base64," \o first.inlineData.data

\* a response with two inline payloads resolved to the data URI of the first
C6_Witness ==
    /\ imageCall.settled
    /\ imageCall.api.kind = "ok"
    /\ PartsOf(imageCall.api.response) =
          <<InlinePart("image/png", "A"), InlinePart("image/jpeg", "B")>>
    /\ imageCall.promise.value = "data:image/png;base64,A"
    /\ analysisResult.imageUrl = "data:image/png;base64,A"

\* C9: a response that arrives after the App was unmounted is a no-op: handleGenerate
\* checks that the component is alive before it applies a result, so it makes no
\* setAnalysisResult call and sends no further request once the App is gone.
C9_StaleResponseIsNoOp ==
    /\ staleSets = 0
    /\ \A i \in 1..Len(issued) : issued[i].mounted

----------------------------------------------------------------------------
(* C11, C20, C15: the drag and the loading indicator of the second viewer. *)

\* the step is a mousemove handled by the live scene
IsPointerMove ==
    /\ pointer'.event = "move"
    /\ closure'.id = closure.id
    /\ closure'.events = closure.events + 1

\* C11: after a pointer-down at (x0, y0) taken while the camera is at (lon0, lat0),
\* every pointer-move to (x, y) before the next pointer-up sets
\* lon = lon0 + 0.1 * (x0 - x) and lat = lat0 + 0.1 * (y - y0); a move back to
\* (x0, y0) restores the orientation held at the pointer-down.
C11_MoveIsRelativeToPointerDown ==
    [][IsPointerMove =>
         /\ closure'.lon = pointer'.lon0 + DragScale * (pointer'.x0 - pointer'.x)
         /\ closure'.lat = pointer'.lat0 + DragScale * (pointer'.y - pointer'.y0)]_vars

\* the step is a mousedown that starts a drag or a mouseup that ends one
IsDragStartOrEnd == panoMounted /\ panoMounted' /\ isInteracting' # isInteracting

\* C20: pointer-down and pointer-up by themselves do not change the camera orientation:
\* the lon and lat in effect right after either (before the next frame is computed)
\* are the lon and lat in effect right before it, never reset to (0, 0).
C20_DownAndUpKeepOrientation ==
    [][IsDragStartOrEnd =>
         /\ lastFrame'.lonBefore = closure.lon
         /\ lastFrame'.latBefore = closure.lat]_vars

\* C15: once the texture of an image has loaded, the viewer shows the scene and does
\* not return to the loading indicator while the image stays the same, whatever
\* pointer events occur.
C15_NoReturnToLoadingIndicator ==
    [][(panoMounted /\ panoMounted' /\ textureLoaded /\ closure'.imageUrl = closure.imageUrl)
         => textureLoaded']_vars

----------------------------------------------------------------------------
(* C16, C17: the flags of the map under overlapping loads. *)

\* C16: whenever no map load is in flight, usingFallback is true exactly when the
\* collection on display is the bundled fallback collection, for every interleaving
\* of load starts and completions.
C16_FallbackFlagMatchesDisplay ==
    (mapMounted /\ loads = {}) => (usingFallback <=> geoData = FALLBACK_DATA)

\* C17: loading is true whenever at least one layer load is in flight; the completion
\* of an earlier load does not clear it while a later load is still pending.
C17_LoadingWhileInFlight ==
    loads # {} => loading

----------------------------------------------------------------------------
(* C12, C13, C14, C18, C19: the orchestration of one generation (SpecGen). *)

\* the step starts a generation
IsGenerationStart == genSeq' = genSeq + 1

\* the step sends the image request of a generation
IsImageRequest == Len(issued') = Len(issued) + 1 /\ Last(issued').kind = "image"

\* the step is the return of generateShopVisualization to handleGenerate
IsImageSettled == \E g \in gens : g.pc = "image" /\ g \notin gens'

\* the positions in the history of the requests of one kind that generation k sent
RequestsOf(k, kind) == {i \in 1..Len(issued) : issued[i].gen = k /\ issued[i].kind = kind}

\* C12: within one generation the image request is sent only after the text request
\* has resolved and its text is in the result; if the image request then fails or
\* yields no image, the generation ends with that text still in the result, imageUrl
\* undefined and loading false.
C12_TextThenImage ==
    [][ /\ IsImageRequest
          => /\ RequestsOf(Last(issued').gen, "text") # {}
             /\ textCall.settled
             /\ textCall.promise.state = "fulfilled"
             /\ appMounted => /\ analysisResult.markdownAnalysis = textCall.promise.value
                              /\ analysisResult.loading
        /\ (/\ IsImageSettled
            /\ appMounted
            /\ imageCall'.promise.state = "rejected" \/ imageCall'.promise.value = Undefined)
          => analysisResult' = [markdownAnalysis |-> textCall.promise.value,
                                imageUrl |-> Undefined, loading |-> FALSE] ]_vars

\* a generation ended after an image request that was rejected: the text of its text
\* request is on display, without an image, and loading is false
C12_Witness ==
    /\ appMounted
    /\ gens = {}
    /\ imageCall.settled
    /\ imageCall.api.kind = "reject"
    /\ analysisResult = [markdownAnalysis |-> "## Demographics & Vibe",
                         imageUrl |-> Undefined, loading |-> FALSE]

\* C13: a generation triggered with a location selected sets the result to empty
\* text, no image and loading true, discarding the text and image of the previous
\* generation, and only then sends its first request; with no location selected
\* nothing is triggered: the result stays as it was and no request is sent.
C13_GenerationStartResetsResult ==
    [][ /\ IsGenerationStart
          => /\ selectedLocation # NoLocation
             /\ analysisResult' = [markdownAnalysis |-> "", imageUrl |-> Undefined,
                                   loading |-> TRUE]
             /\ RequestsOf(genSeq', "text") = {} /\ RequestsOf(genSeq', "image") = {}
             /\ issued' = Append(issued, Last(issued'))
             /\ Last(issued').gen = genSeq' /\ Last(issued').kind = "text"
        /\ selectedLocation = NoLocation
          => /\ analysisResult' = analysisResult
             /\ issued' = issued
             /\ gens' = gens ]_vars

\* the second generation has just started: the text and the image that the first one
\* wrote are gone from the result
C13_Witness ==
    /\ genSeq = 2
    /\ \E g \in gens : g.id = 2 /\ g.pc = "text"
    /\ textCall.settled
    /\ imageCall.settled
    /\ imageCall.promise.value # Undefined
    /\ analysisResult = [markdownAnalysis |-> "", imageUrl |-> Undefined, loading |-> TRUE]

\* C14: every generation sends exactly one text request and at most one image
\* request (nothing is retried); a generation in flight eventually ends, with
\* loading false; and once none is in flight the result changes only when the user
\* triggers the next generation.
C14_OneAttemptThenIdle ==
    /\ [](\A k \in 1..genSeq :
            /\ Cardinality(RequestsOf(k, "text")) = 1
            /\ Cardinality(RequestsOf(k, "image")) <= 1)
    /\ [][(gens = {} /\ analysisResult' # analysisResult) => IsGenerationStart]_vars
    /\ (gens # {}) ~> (gens = {} /\ (appMounted => ~analysisResult.loading))

\* a generation has ended after one text and one image request, and loading is false
C14_Witness ==
    /\ appMounted
    /\ genSeq = 1
    /\ gens = {}
    /\ Cardinality(RequestsOf(1, "text")) = 1
    /\ Cardinality(RequestsOf(1, "image")) = 1
    /\ ~analysisResult.loading

\* C18: at most one generation is in flight at any time, and loading is true exactly
\* while one is: the Generate button is disabled while loading is true or no
\* location is selected, so a generation starts only when none is in flight.
C18_OneGenerationAtATime ==
    /\ Cardinality(gens) <= 1
    /\ appMounted => (analysisResult.loading <=> gens # {})

\* the second generation is in flight, alone, after the first one ended
C18_Witness ==
    /\ appMounted
    /\ genSeq = 2
    /\ \E g \in gens : g.id = 2 /\ gens = {g}
    /\ analysisResult.loading

\* C19: the text request and the image request of one generation both carry the
\* location and the configuration that were current when Generate was triggered,
\* whatever the user selects or configures between the two requests.
C19_RequestsUseTriggerState ==
    [][ /\ IsGenerationStart
          => /\ Last(issued').kind = "text"
             /\ Last(issued').location = selectedLocation.name
             /\ Last(issued').config = config
        /\ IsImageRequest
          => \E i \in RequestsOf(Last(issued').gen, "text") :
                /\ issued[i].location = Last(issued').location
                /\ issued[i].config = Last(issued').config ]_vars

\* an image request went out with the location and configuration of its text request
\* although another location is selected and another business type configured now
C19_Witness ==
    /\ Len(issued) = 2
    /\ issued[2].kind = "image"
    /\ issued[2].location = issued[1].location
    /\ issued[2].config = issued[1].config
    /\ selectedLocation.name # issued[2].location
    /\ config # issued[2].config
    /\ \E g \in gens : g.pc = "image"

----------------------------------------------------------------------------
(* C21: texture load callbacks of scenes that were torn down. *)

\* C21: textureLoaded is true only if the texture load started by the live scene has
\* completed.  Every new scene starts with textureLoaded false, so this says that the
\* step which makes textureLoaded true is the onLoad callback of the live scene's
\* own load, never the callback of a scene that has been torn down.
C21_LoadedOnlyByLiveScene ==
    [][(panoMounted' /\ textureLoaded' /\ ~textureLoaded)
         => (closure'.id \in textureLoads /\ closure'.id \notin textureLoads')]_vars

====
